---------------------------- MODULE Spec2Model ----------------------------
(***************************************************************************)
(* TermSheetGPT (src/app.py).  The deal-economics engine, section "4.      *)
(* FINANCE LOGIC & CHARTS": implied_revenue_multiple, plot_valuation,      *)
(* waterfall, plot_ownership, plot_waterfall_scenarios; and main: the      *)
(* deal form, save_deal, the narrative call and the rendering.             *)
(*                                                                         *)
(* Numbers.  The engine computes on Python floats.  A number is modelled   *)
(* as an exact rational <<n, d>> in lowest terms with d > 0; every         *)
(* arithmetic operator below computes the exact result, so the model is    *)
(* the engine up to floating-point rounding.  None is <<0, 0>>, which is   *)
(* no rational.                                                            *)
(*                                                                         *)
(* Strings.  liq_type is a sequence of one-character strings so that      *)
(* str.lower() and the substring test of waterfall are computed.           *)
(*                                                                         *)
(* Control.  A call is executed statement by statement; pc is the          *)
(* statement about to be executed, loc the local variables of the running  *)
(* function, ret the value it returned.  Spec runs one call at a time;     *)
(* ConcSpec runs the calls of two requests interleaved, the frame of the   *)
(* request that is not running being parked; MainSpec runs main, step by   *)
(* step, over several submissions of the form; AuthSpec runs the sign-in,  *)
(* sign-up, auto-login and sign-out of two browser sessions over one       *)
(* users table.                                                            *)
(***************************************************************************)
EXTENDS Integers, Sequences, FiniteSets, TLC

VARIABLES fn, args, pc, loc, ret, parked,
          mpc, submitted, inputs, payload, recs, session_state, deals,
          shown, events, origin, processed, computed,
          users, sess, issued, revoked, last

vars ==
    <<fn, args, pc, loc, ret, parked, mpc, submitted, inputs, payload, recs,
      session_state, deals, shown, events, origin, processed, computed,
      users, sess, issued, revoked, last>>

\* what a statement of an engine function leaves alone
rest ==
    <<parked, mpc, submitted, inputs, payload, recs, session_state, deals,
      shown, events, origin, processed, computed, users, sess, issued,
      revoked, last>>

---------------------------------------------------------------------------
(* Bounds of the input grid. *)

MaxMoney == 3

MaxExit == 5

---------------------------------------------------------------------------
(* Exact rational arithmetic standing for float arithmetic. *)

Abs(x) == IF x < 0 THEN -x ELSE x

RECURSIVE GCD(_, _)
GCD(a, b) == IF b = 0 THEN a ELSE GCD(b, a % b)

\* n/d in lowest terms, sign carried by the numerator (d # 0).
Rat(n, d) ==
    LET g == GCD(Abs(n), Abs(d))
        s == IF d < 0 THEN -1 ELSE 1
    IN  IF d = 0 THEN <<0, 0>> ELSE <<s * (n \div g), s * (d \div g)>>

Num(i) == <<i, 1>>

Zero == Num(0)

Hundred == Num(100)

None == <<0, 0>>

\* sums and comparisons on the least common denominator, to keep the
\* products small
RAdd(x, y) ==
    LET g == IF x[2] = 0 /\ y[2] = 0 THEN 1 ELSE GCD(x[2], y[2])
    IN  Rat(x[1] * (y[2] \div g) + y[1] * (x[2] \div g), (x[2] \div g) * y[2])

RSub(x, y) == RAdd(x, <<-y[1], y[2]>>)

\* cross-cancel before multiplying, to keep the products small
RMul(x, y) ==
    LET a == Rat(x[1], y[2])
        b == Rat(y[1], x[2])
    IN  Rat(a[1] * b[1], a[2] * b[2])

\* x / y for y # 0; a zero divisor raises ZeroDivisionError at the call site
RDiv(x, y) == RMul(x, Rat(y[2], y[1]))

RLe(x, y) ==
    LET g == IF x[2] = 0 /\ y[2] = 0 THEN 1 ELSE GCD(x[2], y[2])
    IN  x[1] * (y[2] \div g) <= y[1] * (x[2] \div g)

RLt(x, y) == ~RLe(y, x)

\* Python's min(a, b) / max(a, b): the first argument wins a tie
RMin(x, y) == IF RLt(y, x) THEN y ELSE x

RMax(x, y) == IF RLt(x, y) THEN y ELSE x

\* the integer printed by the format spec `,.0f`: nearest integer, a tie
\* going to the even one
Round0(x) ==
    LET f == x[1] \div x[2]
        r == 2 * (x[1] % x[2])
    IN  IF r < x[2] THEN f
        ELSE IF r > x[2] THEN f + 1
        ELSE IF f % 2 = 0 THEN f ELSE f + 1

\* truth value of a number: `if x` is false exactly for zero
Truthy(x) == x # Zero

---------------------------------------------------------------------------
(* Strings as character sequences; str.lower() and the `in` operator. *)

UpperAlpha ==
    <<"A","B","C","D","E","F","G","H","I","J","K","L","M",
      "N","O","P","Q","R","S","T","U","V","W","X","Y","Z">>

LowerAlpha ==
    <<"a","b","c","d","e","f","g","h","i","j","k","l","m",
      "n","o","p","q","r","s","t","u","v","w","x","y","z">>

LowerChar(c) ==
    LET up == {i \in 1..26 : UpperAlpha[i] = c}
    IN  IF up = {} THEN c ELSE LowerAlpha[CHOOSE i \in up : TRUE]

RECURSIVE Lower(_)

Lower(s) ==
    IF Len(s) = 0 THEN <<>>
    ELSE <<LowerChar(Head(s))>> \o Lower(Tail(s))

\* needle in hay
Contains(needle, hay) ==
    \E i \in 1..(Len(hay) - Len(needle) + 1) :
        SubSeq(hay, i, i + Len(needle) - 1) = needle

NonParticipatingLit ==
    <<"n","o","n","-","p","a","r","t","i","c","i","p","a","t","i","n","g">>

\* the two options of the form's select box (main)
NonParticipatingPreferred ==
    <<"N","o","n","-","p","a","r","t","i","c","i","p","a","t","i","n","g",
      " ","p","r","e","f","e","r","r","e","d">>

ParticipatingPreferred ==
    <<"P","a","r","t","i","c","i","p","a","t","i","n","g",
      " ","p","r","e","f","e","r","r","e","d">>

NonParticipatingUpper ==
    <<"N","O","N","-","P","A","R","T","I","C","I","P","A","T","I","N","G">>

NoString == <<>>

\* the options of the select box in other letter cases, and a string
\* without the hyphen
NonParticipatingPreferredUpper ==
    <<"N","O","N","-","P","A","R","T","I","C","I","P","A","T","I","N",
      "G"," ","P","R","E","F","E","R","R","E","D">>

ParticipatingPreferredUpper ==
    <<"P","A","R","T","I","C","I","P","A","T","I","N","G"," ","P","R",
      "E","F","E","R","R","E","D">>

ParticipatingPreferredLower ==
    <<"p","a","r","t","i","c","i","p","a","t","i","n","g"," ","p","r",
      "e","f","e","r","r","e","d">>

NonParticipatingMixed ==
    <<"n","O","n","-","P","a","R","t","I","c","I","p","A","t","I","n",
      "G"," ","P","r","e","f","e","r","r","e","d">>

NoHyphenPreferred ==
    <<"N","o","n"," ","p","a","r","t","i","c","i","p","a","t","i","n",
      "g"," ","p","r","e","f","e","r","r","e","d">>

---------------------------------------------------------------------------
(* The statements of the engine functions, as operators on their operands. *)

\* mutant: the test written `rev >= 0`
RevNonNegative(rev) == RLe(Zero, rev)

\* implied_revenue_multiple: `if rev and rev > 0`
RevUsable(rev) == Truthy(rev) /\ RLt(Zero, rev)

\* mutant: the guard forgets the exit value
WfDegenerateNoExit(pre, invest, liq_mult, exit_v) ==
    \/ RLe(pre, Zero)
    \/ RLe(invest, Zero)
    \/ RLe(liq_mult, Zero)

\* mutant: the guard rejects negative arguments only
WfDegenerateStrict(pre, invest, liq_mult, exit_v) ==
    \/ RLt(pre, Zero)
    \/ RLt(invest, Zero)
    \/ RLt(liq_mult, Zero)
    \/ RLt(exit_v, Zero)

\* waterfall: `if pre <= 0 or invest <= 0 or liq_mult <= 0 or exit_v <= 0`
WfDegenerate(pre, invest, liq_mult, exit_v) ==
    \/ RLe(pre, Zero)
    \/ RLe(invest, Zero)
    \/ RLe(liq_mult, Zero)
    \/ RLe(exit_v, Zero)

\* waterfall: `equity / 100.0 if equity > 0 else invest / post`
UsesEquity(equity) == RLt(Zero, equity)

WfOwner(equity, invest, post) ==
    IF UsesEquity(equity) THEN RDiv(equity, Hundred) ELSE RDiv(invest, post)

\* mutant: the test forgets lower()
IsNonParticipatingCaseSensitive(liq_type) ==
    Contains(NonParticipatingLit, liq_type)

\* waterfall: `"non-participating" in liq_type.lower()`
IsNonParticipating(liq_type) ==
    LET liq_type_lower == Lower(liq_type)
    IN  Contains(NonParticipatingLit, liq_type_lower)

\* mutant: the investor payout is not capped at the exit value
NonParticipatingUncapped(pref, owner, exit_v) ==
    LET pro_rata        == RMul(owner, exit_v)
        investor_payout == RMax(pref, pro_rata)
        founder_payout  == RMax(RSub(exit_v, investor_payout), Zero)
    IN  <<investor_payout, founder_payout>>

\* mutant: the pro-rata share is taken on the exit value net of the preference
NonParticipatingNetOfPref(pref, owner, exit_v) ==
    LET pro_rata        == RMul(owner, RMax(RSub(exit_v, pref), Zero))
        investor_payout == RMin(RMax(pref, pro_rata), exit_v)
        founder_payout  == RMax(RSub(exit_v, investor_payout), Zero)
    IN  <<investor_payout, founder_payout>>

\* mutant: the investor converts as soon as the exit value exceeds the
\* preference, whatever the pro-rata share is worth
NonParticipatingConvertsEarly(pref, owner, exit_v) ==
    LET pro_rata        == RMul(owner, exit_v)
        investor_payout == RMin(IF RLt(pref, exit_v) THEN pro_rata ELSE pref,
                                exit_v)
        founder_payout  == RMax(RSub(exit_v, investor_payout), Zero)
    IN  <<investor_payout, founder_payout>>

\* waterfall, first branch: <<investor_payout, founder_payout>>
NonParticipatingPayout(pref, owner, exit_v) ==
    LET pro_rata        == RMul(owner, exit_v)
        investor_payout == RMin(RMax(pref, pro_rata), exit_v)
        founder_payout  == RMax(RSub(exit_v, investor_payout), Zero)
    IN  <<investor_payout, founder_payout>>

\* mutant: the investor payout is not capped at the exit value
ParticipatingUncapped(pref, owner, exit_v) ==
    LET remaining       == RMax(RSub(exit_v, pref), Zero)
        investor_extra  == RMul(owner, remaining)
        investor_payout == RAdd(pref, investor_extra)
        founder_payout  == RMax(RSub(exit_v, investor_payout), Zero)
    IN  <<investor_payout, founder_payout>>

\* mutant: the investor shares in the whole exit value, not in the remainder
ParticipatingShareOfExit(pref, owner, exit_v) ==
    LET investor_extra  == RMul(owner, exit_v)
        investor_payout == RMin(RAdd(pref, investor_extra), exit_v)
        founder_payout  == RMax(RSub(exit_v, investor_payout), Zero)
    IN  <<investor_payout, founder_payout>>

\* mutant: the preference is left out of the investor payout
ParticipatingWithoutPref(pref, owner, exit_v) ==
    LET remaining       == RMax(RSub(exit_v, pref), Zero)
        investor_extra  == RMul(owner, remaining)
        investor_payout == RMin(investor_extra, exit_v)
        founder_payout  == RMax(RSub(exit_v, investor_payout), Zero)
    IN  <<investor_payout, founder_payout>>

\* waterfall, else branch: <<investor_payout, founder_payout>>
ParticipatingPayout(pref, owner, exit_v) ==
    LET remaining       == RMax(RSub(exit_v, pref), Zero)
        investor_extra  == RMul(owner, remaining)
        investor_payout == RMin(RAdd(pref, investor_extra), exit_v)
        founder_payout  == RMax(RSub(exit_v, investor_payout), Zero)
    IN  <<investor_payout, founder_payout>>

\* the outcome of a call that raised ZeroDivisionError
ZeroDivisionError == <<None, None>>

\* waterfall as a function of its arguments
waterfall(pre, invest, liq_mult, liq_type, equity, exit_v) ==
    IF WfDegenerate(pre, invest, liq_mult, exit_v)
    THEN <<Zero, Zero>>
    ELSE LET post == RAdd(pre, invest)
         IN  IF ~UsesEquity(equity) /\ post = Zero
             THEN ZeroDivisionError
             ELSE LET owner == WfOwner(equity, invest, post)
                      pref  == RMul(invest, liq_mult)
                  IN  IF IsNonParticipating(liq_type)
                      THEN NonParticipatingPayout(pref, owner, exit_v)
                      ELSE ParticipatingPayout(pref, owner, exit_v)

\* plot_ownership: `if pre <= 0 or invest <= 0`
PoUnavailable(pre, invest) == RLe(pre, Zero) \/ RLe(invest, Zero)

\* plot_ownership: `if equity_pct and equity_pct > 0`
PoUsesEquity(equity_pct) == Truthy(equity_pct) /\ RLt(Zero, equity_pct)

\* plot_ownership: `invest / post * 100.0`
PoDerived(invest, post) == RMul(RDiv(invest, post), Hundred)

\* mutant: the existing-holders value is not clamped at zero
PoExistingUnclamped(new_investor) == RSub(Hundred, new_investor)

\* plot_ownership: `max(100.0 - new_investor, 0.0)`
PoExisting(new_investor) == RMax(RSub(Hundred, new_investor), Zero)

\* plot_valuation: `if pre <= 0`
PvUnavailable(pre) == RLe(pre, Zero)

\* plot_valuation: x and y of the bar trace
PvLabels == <<"-20%", "Base", "+20%">>

\* mutant: the band is written upside down
PvValuesReversed(pre) == <<RMul(pre, Rat(12, 10)), pre, RMul(pre, Rat(8, 10))>>

PvValues(pre) == <<RMul(pre, Rat(8, 10)), pre, RMul(pre, Rat(12, 10))>>

\* plot_waterfall_scenarios: `if base_exit <= 0`
PwsUnavailable(base_exit) == RLe(base_exit, Zero)

\* plot_waterfall_scenarios: `[0.5 * base_exit, base_exit, 2.0 * base_exit]`
PwsExitValues(base_exit) ==
    <<RMul(Rat(1, 2), base_exit), base_exit, RMul(Num(2), base_exit)>>

\* plot_waterfall_scenarios: the labels; a label is its multiple and the
\* exit value as `,.0f` prints it
PwsLabelValues(exits) ==
    <<<<"0.5x", Round0(exits[1])>>, <<"1.0x", Round0(exits[2])>>,
      <<"2.0x", Round0(exits[3])>>>>

\* mutant: every iteration passes the base exit value
PwsLoopBaseExit(exits, i) == exits[2]

\* plot_waterfall_scenarios: the exit value the loop passes to waterfall in
\* its i-th iteration (`for e in exits`)
PwsLoopExit(exits, i) == exits[i]

---------------------------------------------------------------------------
(* Values returned. *)

NoRet == [kind |-> "unset", a |-> None, b |-> None]

RetNone == [kind |-> "None", a |-> None, b |-> None]

RetTuple(t) == [kind |-> "tuple", a |-> t[1], b |-> t[2]]

RetFloat(x) == [kind |-> "float", a |-> x, b |-> None]

RetFig(x, y) == [kind |-> "fig", a |-> x, b |-> y]

\* a bar chart: the labels of the x axis and the y values of each trace
RetBars(x, ys) == [kind |-> "fig", a |-> x, b |-> ys]

\* the call raised instead of returning
RetRaised == [kind |-> "raised", a |-> None, b |-> None]

---------------------------------------------------------------------------
(* The other engine functions as functions of their arguments. *)

implied_revenue_multiple(pre, rev) ==
    IF RevUsable(rev)
    THEN IF rev = Zero THEN RetRaised ELSE RetFloat(RDiv(pre, rev))
    ELSE RetNone

plot_valuation(pre) ==
    IF PvUnavailable(pre) THEN RetNone
    ELSE RetBars(PvLabels, <<PvValues(pre)>>)

plot_ownership(pre, invest, equity_pct) ==
    IF PoUnavailable(pre, invest) THEN RetNone
    ELSE LET post == RAdd(pre, invest)
         IN  IF PoUsesEquity(equity_pct)
             THEN RetFig(equity_pct, PoExisting(equity_pct))
             ELSE IF post = Zero THEN RetRaised
                  ELSE LET new_investor == PoDerived(invest, post)
                       IN  RetFig(new_investor, PoExisting(new_investor))

plot_waterfall_scenarios(pre, invest, liq_mult, liq_type, equity, base_exit) ==
    IF PwsUnavailable(base_exit) THEN RetNone
    ELSE LET exits == PwsExitValues(base_exit)
             rs == [i \in 1..3 |->
                      waterfall(pre, invest, liq_mult, liq_type, equity,
                                PwsLoopExit(exits, i))]
         IN  IF \E i \in 1..3 : rs[i] = ZeroDivisionError THEN RetRaised
             ELSE RetBars(PwsLabelValues(exits),
                          <<[i \in 1..3 |-> rs[i][1]],
                            [i \in 1..3 |-> rs[i][2]]>>)

---------------------------------------------------------------------------
(* Inputs. *)

MoneyValues == {Num(i) : i \in -1..MaxMoney}

ExitValues == {Num(i) : i \in -1..MaxExit}

\* the form offers 0.5 .. 3.0 in steps of 0.5; zero and a negative value
\* are the degenerate cases of the guard
LiqMultiples == {Rat(k, 2) : k \in -1..6}

\* the form offers 0 .. 100; 150 and -5 are outside it
Equities == {Num(-5), Num(0), Num(20), Num(50), Num(100), Num(150)}

LiqTypes == {NonParticipatingPreferred, ParticipatingPreferred,
             NonParticipatingUpper, NoString}

\* the form's default deal at an exit of 50,000,000, with the stated
\* equity of 20 % and with equity left at 0
ExampleArgs ==
    [pre : {Num(10000000)}, invest : {Num(3000000)}, liq_mult : {Num(1)},
     liq_type : {NonParticipatingPreferred, ParticipatingPreferred},
     equity : {Num(20), Num(0)}, exit_v : {Num(50000000)}, rev : {None}]

\* liq_type in other spellings, on a few deals
OtherLiqTypes ==
    {NonParticipatingPreferredUpper, ParticipatingPreferredUpper,
     ParticipatingPreferredLower, NonParticipatingMixed, NoHyphenPreferred}

SpellingArgs ==
    [pre : {Num(1), Num(3)}, invest : {Num(1), Num(2)},
     liq_mult : {Num(1), Rat(3, 2)}, liq_type : OtherLiqTypes,
     equity : {Num(0), Num(20)}, exit_v : {Num(1), Num(3), Num(5)},
     rev : {None}]

WaterfallArgs ==
    [pre : MoneyValues, invest : MoneyValues, liq_mult : LiqMultiples,
     liq_type : LiqTypes, equity : Equities, exit_v : ExitValues,
     rev : {None}]
      \cup ExampleArgs \cup SpellingArgs

OwnershipArgs ==
    [pre : MoneyValues, invest : MoneyValues, liq_mult : {None},
     liq_type : {NoString}, equity : Equities, exit_v : {None},
     rev : {None}]
      \cup
    [pre : {Num(10000000)}, invest : {Num(3000000)}, liq_mult : {None},
     liq_type : {NoString}, equity : {Num(0), Num(20)}, exit_v : {None},
     rev : {None}]

MultipleArgs ==
    [pre : MoneyValues, invest : {None}, liq_mult : {None},
     liq_type : {NoString}, equity : {None}, exit_v : {None},
     rev : MoneyValues]
      \cup
    [pre : {Num(10000000)}, invest : {None}, liq_mult : {None},
     liq_type : {NoString}, equity : {None}, exit_v : {None},
     rev : {Num(0), Num(2000000)}]

ValuationArgs ==
    [pre : MoneyValues \cup {Num(10000000)}, invest : {None},
     liq_mult : {None}, liq_type : {NoString}, equity : {None},
     exit_v : {None}, rev : {None}]

\* plot_waterfall_scenarios takes its base_exit in exit_v
ScenarioArgs ==
    [pre : MoneyValues, invest : MoneyValues,
     liq_mult : {Num(0), Num(1), Rat(3, 2)},
     liq_type : {NonParticipatingPreferred, ParticipatingPreferred},
     equity : {Num(0), Num(20), Num(150)}, exit_v : ExitValues,
     rev : {None}]
      \cup ExampleArgs

---------------------------------------------------------------------------
(* main: the deal form, its submission and the rendering of the results.   *)
(* One run of main is executed in steps; mpc is the step about to be       *)
(* executed, "idle" between two runs.                                      *)

\* the rows of the deals table are capped for the exploration
MaxDeals == 2

NoUser == [id |-> 0, name |-> ""]

Users == {[id |-> 1, name |-> "Ada"], [id |-> 2, name |-> "Grace"]}

\* the widgets of the form at their default values
FormDefaults ==
    [company_name |-> "", industry |-> "", stage |-> "Pre-revenue",
     round_label |-> "Series A", country |-> "United States",
     currency |-> "USD", revenue_th |-> 0, growth |-> Num(50),
     description |-> "", pre_money_th |-> 10000,
     investment_amount_th |-> 3000, equity_percentage |-> Num(20),
     instrument |-> "Preferred Equity", liq_multiple |-> Num(1),
     liq_type |-> NonParticipatingPreferred, anti_dilution |-> "None",
     board_seats |-> 1, board_terms_text |-> "", veto_terms_text |-> "",
     safes_notes_details |-> "", option_pool_post |-> Num(10),
     other_terms |-> "", assumed_exit_th |-> 50000, prio_valuation |-> 4,
     prio_dilution |-> 4, prio_control |-> 5, prio_speed |-> 3,
     priority_notes |-> "", investor_type |-> "Not specified",
     leverage |-> "Not specified",
     investor_reputation |-> "Not specified"]

\* what the user may have entered: the defaults with a revenue, the same
\* deal with the equity left at 0 on participating terms, a form without
\* valuation and amount, and the defaults at the smallest exit
Forms ==
    {[FormDefaults EXCEPT !.revenue_th = 2000],
     [FormDefaults EXCEPT !.revenue_th = 2000, !.equity_percentage = Zero,
                          !.liq_multiple = Rat(3, 2),
                          !.liq_type = ParticipatingPreferred],
     [FormDefaults EXCEPT !.pre_money_th = 0, !.investment_amount_th = 0],
     [FormDefaults EXCEPT !.company_name = "Acme", !.currency = "EUR",
                          !.assumed_exit_th = 100]}

\* x_th * 1000.0
Thousands(th) == RMul(Num(th), Num(1000))

\* the dict built from the widgets
InputsOf(form) ==
    [company_name |-> form.company_name, industry |-> form.industry,
     stage |-> form.stage, round_label |-> form.round_label,
     country |-> form.country, currency |-> form.currency,
     revenue |-> Thousands(form.revenue_th), growth |-> form.growth,
     description |-> form.description,
     pre_money |-> Thousands(form.pre_money_th),
     investment_amount |-> Thousands(form.investment_amount_th),
     equity_percentage |-> form.equity_percentage,
     instrument |-> form.instrument, liq_multiple |-> form.liq_multiple,
     liq_type |-> form.liq_type, anti_dilution |-> form.anti_dilution,
     board_seats |-> form.board_seats,
     board_terms_text |-> form.board_terms_text,
     veto_terms_text |-> form.veto_terms_text,
     safes_notes_details |-> form.safes_notes_details,
     option_pool_post |-> form.option_pool_post,
     other_terms |-> form.other_terms,
     assumed_exit |-> Thousands(form.assumed_exit_th),
     prio_valuation |-> form.prio_valuation,
     prio_dilution |-> form.prio_dilution,
     prio_control |-> form.prio_control, prio_speed |-> form.prio_speed,
     priority_notes |-> form.priority_notes,
     investor_type |-> form.investor_type, leverage |-> form.leverage,
     investor_reputation |-> form.investor_reputation]

\* the local inputs outside a run
NoInputs ==
    [company_name |-> "", industry |-> "", stage |-> "",
     round_label |-> "", country |-> "", currency |-> "",
     revenue |-> None, growth |-> None, description |-> "",
     pre_money |-> None, investment_amount |-> None,
     equity_percentage |-> None, instrument |-> "", liq_multiple |-> None,
     liq_type |-> NoString, anti_dilution |-> "", board_seats |-> 0,
     board_terms_text |-> "", veto_terms_text |-> "",
     safes_notes_details |-> "", option_pool_post |-> None,
     other_terms |-> "", assumed_exit |-> None, prio_valuation |-> 0,
     prio_dilution |-> 0, prio_control |-> 0, prio_speed |-> 0,
     priority_notes |-> "", investor_type |-> "", leverage |-> "",
     investor_reputation |-> ""]

\* the payload with an output of the engine added to it
build_json_payload_with_multiple(user_name, inputs_) ==
    [founder |-> [name |-> user_name],
     company |->
        [name |-> inputs_.company_name, industry |-> inputs_.industry,
         stage |-> inputs_.stage, country |-> inputs_.country,
         description |-> inputs_.description],
     round |->
        [round_label |-> inputs_.round_label,
         round_type |-> inputs_.instrument, currency |-> inputs_.currency,
         pre_money_valuation |-> inputs_.pre_money,
         investment_amount |-> inputs_.investment_amount,
         equity_percentage |-> inputs_.equity_percentage,
         assumed_exit_value |-> inputs_.assumed_exit],
     traction |->
        [annual_revenue |-> inputs_.revenue,
         yoy_growth_percent |-> inputs_.growth,
         implied_revenue_multiple |->
            implied_revenue_multiple(inputs_.pre_money, inputs_.revenue).a],
     proposed_terms |->
        [liquidation_preference_multiple |-> inputs_.liq_multiple,
         liquidation_preference_type |-> inputs_.liq_type,
         anti_dilution_protection |-> inputs_.anti_dilution,
         board_seats_for_investors |-> inputs_.board_seats,
         board_terms_text |-> inputs_.board_terms_text,
         veto_rights_text |-> inputs_.veto_terms_text,
         safes_notes_details |-> inputs_.safes_notes_details,
         option_pool_post_percent |-> inputs_.option_pool_post,
         other_terms |-> inputs_.other_terms],
     priorities |->
        [valuation_priority_1_to_5 |-> inputs_.prio_valuation,
         dilution_priority_1_to_5 |-> inputs_.prio_dilution,
         control_priority_1_to_5 |-> inputs_.prio_control,
         speed_to_close_priority_1_to_5 |-> inputs_.prio_speed,
         notes |-> inputs_.priority_notes],
     investor_context |->
        [investor_type |-> inputs_.investor_type,
         leverage |-> inputs_.leverage,
         reputation |-> inputs_.investor_reputation]]

build_json_payload(user_name, inputs_) ==
    [founder |-> [name |-> user_name],
     company |->
        [name |-> inputs_.company_name, industry |-> inputs_.industry,
         stage |-> inputs_.stage, country |-> inputs_.country,
         description |-> inputs_.description],
     round |->
        [round_label |-> inputs_.round_label,
         round_type |-> inputs_.instrument, currency |-> inputs_.currency,
         pre_money_valuation |-> inputs_.pre_money,
         investment_amount |-> inputs_.investment_amount,
         equity_percentage |-> inputs_.equity_percentage,
         assumed_exit_value |-> inputs_.assumed_exit],
     traction |->
        [annual_revenue |-> inputs_.revenue,
         yoy_growth_percent |-> inputs_.growth],
     proposed_terms |->
        [liquidation_preference_multiple |-> inputs_.liq_multiple,
         liquidation_preference_type |-> inputs_.liq_type,
         anti_dilution_protection |-> inputs_.anti_dilution,
         board_seats_for_investors |-> inputs_.board_seats,
         board_terms_text |-> inputs_.board_terms_text,
         veto_rights_text |-> inputs_.veto_terms_text,
         safes_notes_details |-> inputs_.safes_notes_details,
         option_pool_post_percent |-> inputs_.option_pool_post,
         other_terms |-> inputs_.other_terms],
     priorities |->
        [valuation_priority_1_to_5 |-> inputs_.prio_valuation,
         dilution_priority_1_to_5 |-> inputs_.prio_dilution,
         control_priority_1_to_5 |-> inputs_.prio_control,
         speed_to_close_priority_1_to_5 |-> inputs_.prio_speed,
         notes |-> inputs_.priority_notes],
     investor_context |->
        [investor_type |-> inputs_.investor_type,
         leverage |-> inputs_.leverage,
         reputation |-> inputs_.investor_reputation]]

NoPayload == build_json_payload("", NoInputs)

\* a VARCHAR(width) column keeps the first width characters
Varchar(s, width) == IF Len(s) <= width THEN s ELSE SubSeq(s, 1, width)

\* liq_type VARCHAR(100)
LiqTypeWidth == 100

\* the row without the exit value assumed for the waterfall
DealRowWithoutExit(user_id, inputs_) ==
    [user_id |-> user_id, company_name |-> inputs_.company_name,
     industry |-> inputs_.industry, stage |-> inputs_.stage,
     country |-> inputs_.country, currency |-> inputs_.currency,
     revenue |-> inputs_.revenue, growth |-> inputs_.growth,
     description |-> inputs_.description, pre_money |-> inputs_.pre_money,
     investment_amount |-> inputs_.investment_amount,
     equity_percentage |-> inputs_.equity_percentage,
     instrument |-> inputs_.instrument,
     liq_multiple |-> inputs_.liq_multiple,
     liq_type |-> Varchar(inputs_.liq_type, LiqTypeWidth),
     anti_dilution |-> inputs_.anti_dilution,
     board_seats |-> inputs_.board_seats,
     other_terms |-> inputs_.other_terms, assumed_exit |-> None]

\* the row of the deals table that save_deal inserts; the DOUBLE columns
\* hold the floats they are given
DealRow(user_id, inputs_) ==
    [user_id |-> user_id, company_name |-> inputs_.company_name,
     industry |-> inputs_.industry, stage |-> inputs_.stage,
     country |-> inputs_.country, currency |-> inputs_.currency,
     revenue |-> inputs_.revenue, growth |-> inputs_.growth,
     description |-> inputs_.description, pre_money |-> inputs_.pre_money,
     investment_amount |-> inputs_.investment_amount,
     equity_percentage |-> inputs_.equity_percentage,
     instrument |-> inputs_.instrument,
     liq_multiple |-> inputs_.liq_multiple,
     liq_type |-> Varchar(inputs_.liq_type, LiqTypeWidth),
     anti_dilution |-> inputs_.anti_dilution,
     board_seats |-> inputs_.board_seats,
     other_terms |-> inputs_.other_terms,
     assumed_exit |-> inputs_.assumed_exit]

\* the replies of the narrative generator: an analysis, or the message
\* returned when the API call fails
AnalysisTexts == {"1. Push the pre-money valuation up."}

ApiErrorTexts == {"Error calling TermSheetGPT API: timeout"}

NoRecs == "<unset>"

\* f"{x:.1f}" as a number
Format1f(x) == Rat(Round0(RMul(x, Num(10))), 10)

\* what the right column shows
NoShown ==
    [recs |-> NoRecs, valuation |-> NoRet, multiple |-> NoRet,
     ownership |-> NoRet, caption |-> None, scenarios |-> NoRet]

\* the number in the caption under the ownership chart
OwnershipCaption(deal) == Format1f(deal.equity_percentage)

RenderOutput(recs_, deal) ==
    LET val_fig == plot_valuation(deal.pre_money)
        own_fig == plot_ownership(deal.pre_money, deal.investment_amount,
                                  deal.equity_percentage)
    IN  [recs |-> recs_,
         valuation |-> val_fig,
         multiple |->
            IF val_fig.kind = "fig"
            THEN implied_revenue_multiple(deal.pre_money, deal.revenue)
            ELSE NoRet,
         ownership |-> own_fig,
         caption |->
            IF own_fig.kind = "fig" THEN OwnershipCaption(deal)
            ELSE None,
         scenarios |->
            plot_waterfall_scenarios(deal.pre_money, deal.investment_amount,
                                     deal.liq_multiple, deal.liq_type,
                                     deal.equity_percentage,
                                     deal.assumed_exit)]

\* d[k] = v
SetItem(d, k, v) ==
    [j \in DOMAIN d \cup {k} |-> IF j = k THEN v ELSE d[j]]

\* `if submitted:` taken on every run
SubmitBranchAlways(s) == TRUE

\* `if submitted:`
SubmitBranch(s) == s

\* save_deal's exception caught and the submission carried on
SaveDealErrorSwallowed == "build_payload"

\* an exception of save_deal leaves main: the run is over
SaveDealError == "idle"

---------------------------------------------------------------------------
(* Accounts: the users table, the remember cookie of each browser and the  *)
(* session user of each browser session.                                   *)

\* secrets.token_hex(32) gives a token never given before; the tokens of
\* an exploration are numbered 1 .. MaxTokens
MaxTokens == 2

Sessions == {1, 2}

Emails == {"ada@example.com", "bo@example.com"}

Passwords == {"correct horse", "tr0ub4dor"}

\* os.urandom(16).hex()
Salts == {"5f1c"}

\* hashlib.sha256(...).hexdigest(): the digest stands for its message
Sha256(message) == <<"sha256", message>>

\* remember_token_hash NULL
Null == <<"NULL", 0>>

NoCookie == 0

\* f"{salt}${digest}", kept as the two parts that split("$", 1) gives back
hash_password(password, salt) == <<salt, Sha256(<<salt, password>>)>>

\* every password passes
verify_password_any(password, stored_hash) == TRUE

verify_password(password, stored_hash) ==
    LET salt == stored_hash[1]
        digest == stored_hash[2]
        candidate == Sha256(<<salt, password>>)
    IN  candidate = digest

\* st.session_state["user"] is None
NoSessionUser == [id |-> 0, name |-> "", email |-> ""]

\* the dict of a users row that main keeps as session user
SessionUser(row) == [id |-> row.id, name |-> row.name, email |-> row.email]

NoForm == [name |-> "", email |-> "", pw |-> "", remember |-> FALSE]

NoSession ==
    [user |-> NoSessionUser, cookie |-> NoCookie, at |-> "start",
     form |-> NoForm]

\* SELECT ... FROM users WHERE email = :email
RowsByEmail(table, email) ==
    {i \in 1..Len(table) : table[i].email = email}

\* SELECT ... FROM users WHERE remember_token_hash = :th; NULL equals
\* nothing
RowsByTokenHash(table, th) ==
    {i \in 1..Len(table) :
        /\ table[i].remember_token_hash # Null
        /\ table[i].remember_token_hash = th}

\* fetchone()
FirstOf(rows) == CHOOSE i \in rows : \A j \in rows : i <= j

\* the users table without the UNIQUE constraint on email
EmailNotConstrained(table, email) == TRUE

\* email VARCHAR(255) UNIQUE NOT NULL: the INSERT is accepted
EmailUnique(table, email) == RowsByEmail(table, email) = {}

\* UPDATE users SET remember_token_hash = :th WHERE id = :uid
SetTokenHash(table, uid, th) ==
    [i \in 1..Len(table) |->
        IF table[i].id = uid
        THEN [table[i] EXCEPT !.remember_token_hash = th]
        ELSE table[i]]

\* the sign-out leaves the stored hash as it is
KeptHash(th) == th

\* remember_token_hash = NULL
ClearedHash(th) == Null

\* cookie_manager.set / .delete followed at once by st.rerun(): the write
\* of the browser component may or may not reach the browser
CookieWrites(old, new) == {old, new}

NoEvent == [kind |-> "none", session |-> 0, uid |-> 0]

---------------------------------------------------------------------------
(* State. *)

NoArgs ==
    [pre |-> None, invest |-> None, liq_mult |-> None, liq_type |-> NoString,
     equity |-> None, exit_v |-> None, rev |-> None]

NoLocals ==
    [post |-> None, owner |-> None, pref |-> None,
     new_investor |-> None, existing |-> None,
     exits |-> <<>>, labels |-> <<>>, inv_vals |-> <<>>, fnd_vals |-> <<>>]

\* ret: kind "tuple" (a, b), "float" a, "fig" with the plotted values
\* (a, b), "None"; "unset" while the call runs

\* no call
NoFrame ==
    [fn |-> "none", args |-> NoArgs, pc |-> "idle", loc |-> NoLocals,
     ret |-> NoRet]

Init ==
    /\ fn = "none"
    /\ args = NoArgs
    /\ pc = "idle"
    /\ loc = NoLocals
    /\ ret = NoRet
    /\ parked = NoFrame
    /\ mpc = "idle"
    /\ submitted = FALSE
    /\ inputs = NoInputs
    /\ payload = NoPayload
    /\ recs = NoRecs
    /\ session_state = [user |-> NoUser]
    /\ deals = <<>>
    /\ shown = NoShown
    /\ events = <<>>
    /\ origin = [recs |-> 0, inputs |-> 0]
    /\ processed = 0
    /\ computed = <<>>
    /\ users = <<>>
    /\ sess = [s \in Sessions |-> NoSession]
    /\ issued = <<>>
    /\ revoked = {}
    /\ last = NoEvent

Call(f, a, entry) ==
    /\ fn' = f
    /\ args' = a
    /\ pc' = entry
    /\ loc' = NoLocals
    /\ ret' = NoRet
    /\ UNCHANGED rest

---------------------------------------------------------------------------
(* waterfall, statement by statement. *)

CallWaterfall ==
    /\ pc = "idle"
    /\ \E a \in WaterfallArgs : Call("waterfall", a, "wf_guard")

WfGuard ==
    /\ pc = "wf_guard"
    /\ IF WfDegenerate(args.pre, args.invest, args.liq_mult, args.exit_v)
       THEN /\ ret' = RetTuple(<<Zero, Zero>>)
            /\ pc' = "done"
       ELSE /\ ret' = ret
            /\ pc' = "wf_post"
    /\ UNCHANGED <<fn, args, loc, rest>>

WfPost ==
    /\ pc = "wf_post"
    /\ loc' = [loc EXCEPT !.post = RAdd(args.pre, args.invest)]
    /\ pc' = "wf_owner"
    /\ UNCHANGED <<fn, args, ret, rest>>

WfOwnerStep ==
    /\ pc = "wf_owner"
    /\ IF ~UsesEquity(args.equity) /\ loc.post = Zero
       THEN /\ pc' = "raised"
            /\ loc' = loc
       ELSE /\ loc' = [loc EXCEPT
                         !.owner = WfOwner(args.equity, args.invest, loc.post)]
            /\ pc' = "wf_pref"
    /\ UNCHANGED <<fn, args, ret, rest>>

WfPref ==
    /\ pc = "wf_pref"
    /\ loc' = [loc EXCEPT !.pref = RMul(args.invest, args.liq_mult)]
    /\ pc' = "wf_branch"
    /\ UNCHANGED <<fn, args, ret, rest>>

WfNonParticipating ==
    /\ pc = "wf_branch"
    /\ IsNonParticipating(args.liq_type)
    /\ ret' = RetTuple(NonParticipatingPayout(loc.pref, loc.owner, args.exit_v))
    /\ pc' = "done"
    /\ UNCHANGED <<fn, args, loc, rest>>

WfParticipating ==
    /\ pc = "wf_branch"
    /\ ~IsNonParticipating(args.liq_type)
    /\ ret' = RetTuple(ParticipatingPayout(loc.pref, loc.owner, args.exit_v))
    /\ pc' = "done"
    /\ UNCHANGED <<fn, args, loc, rest>>

---------------------------------------------------------------------------
(* plot_ownership, statement by statement; the figure is its two values. *)

CallPlotOwnership ==
    /\ pc = "idle"
    /\ \E a \in OwnershipArgs : Call("plot_ownership", a, "po_guard")

PoGuard ==
    /\ pc = "po_guard"
    /\ IF PoUnavailable(args.pre, args.invest)
       THEN /\ ret' = RetNone
            /\ pc' = "done"
       ELSE /\ ret' = ret
            /\ pc' = "po_post"
    /\ UNCHANGED <<fn, args, loc, rest>>

PoPost ==
    /\ pc = "po_post"
    /\ loc' = [loc EXCEPT !.post = RAdd(args.pre, args.invest)]
    /\ pc' = "po_new"
    /\ UNCHANGED <<fn, args, ret, rest>>

PoNewInvestor ==
    /\ pc = "po_new"
    /\ IF PoUsesEquity(args.equity)
       THEN /\ loc' = [loc EXCEPT !.new_investor = args.equity]
            /\ pc' = "po_existing"
       ELSE IF loc.post = Zero
            THEN /\ pc' = "raised"
                 /\ loc' = loc
            ELSE /\ loc' = [loc EXCEPT
                              !.new_investor = PoDerived(args.invest, loc.post)]
                 /\ pc' = "po_existing"
    /\ UNCHANGED <<fn, args, ret, rest>>

PoExistingStep ==
    /\ pc = "po_existing"
    /\ loc' = [loc EXCEPT !.existing = PoExisting(loc.new_investor)]
    /\ pc' = "po_fig"
    /\ UNCHANGED <<fn, args, ret, rest>>

PoFigure ==
    /\ pc = "po_fig"
    /\ ret' = RetFig(loc.new_investor, loc.existing)
    /\ pc' = "done"
    /\ UNCHANGED <<fn, args, loc, rest>>

---------------------------------------------------------------------------
(* implied_revenue_multiple. *)

CallImpliedRevenueMultiple ==
    /\ pc = "idle"
    /\ \E a \in MultipleArgs : Call("implied_revenue_multiple", a, "irm_test")

IrmTest ==
    /\ pc = "irm_test"
    /\ IF RevUsable(args.rev)
       THEN /\ pc' = "irm_div"
            /\ ret' = ret
       ELSE /\ ret' = RetNone
            /\ pc' = "done"
    /\ UNCHANGED <<fn, args, loc, rest>>

IrmDivide ==
    /\ pc = "irm_div"
    /\ IF args.rev = Zero
       THEN /\ pc' = "raised"
            /\ ret' = ret
       ELSE /\ ret' = RetFloat(RDiv(args.pre, args.rev))
            /\ pc' = "done"
    /\ UNCHANGED <<fn, args, loc, rest>>

---------------------------------------------------------------------------
(* plot_valuation; the figure is the x and y of its bar trace. *)

CallPlotValuation ==
    /\ pc = "idle"
    /\ \E a \in ValuationArgs : Call("plot_valuation", a, "pv_guard")

PvGuard ==
    /\ pc = "pv_guard"
    /\ IF PvUnavailable(args.pre)
       THEN /\ ret' = RetNone
            /\ pc' = "done"
       ELSE /\ ret' = ret
            /\ pc' = "pv_fig"
    /\ UNCHANGED <<fn, args, loc, rest>>

PvFigure ==
    /\ pc = "pv_fig"
    /\ ret' = RetBars(PvLabels, <<PvValues(args.pre)>>)
    /\ pc' = "done"
    /\ UNCHANGED <<fn, args, loc, rest>>

---------------------------------------------------------------------------
(* plot_waterfall_scenarios; an iteration of its loop is one step, the     *)
(* call of waterfall included.                                             *)

CallPlotWaterfallScenarios ==
    /\ pc = "idle"
    /\ \E a \in ScenarioArgs :
          Call("plot_waterfall_scenarios", a, "pws_guard")

PwsGuard ==
    /\ pc = "pws_guard"
    /\ IF PwsUnavailable(args.exit_v)
       THEN /\ ret' = RetNone
            /\ pc' = "done"
       ELSE /\ ret' = ret
            /\ pc' = "pws_exits"
    /\ UNCHANGED <<fn, args, loc, rest>>

PwsExits ==
    /\ pc = "pws_exits"
    /\ loc' = [loc EXCEPT
                 !.exits = PwsExitValues(args.exit_v),
                 !.labels = PwsLabelValues(PwsExitValues(args.exit_v))]
    /\ pc' = "pws_loop"
    /\ UNCHANGED <<fn, args, ret, rest>>

PwsLoop ==
    /\ pc = "pws_loop"
    /\ Len(loc.inv_vals) < Len(loc.exits)
    /\ LET r == waterfall(args.pre, args.invest, args.liq_mult,
                          args.liq_type, args.equity,
                          PwsLoopExit(loc.exits, Len(loc.inv_vals) + 1))
       IN  IF r = ZeroDivisionError
           THEN /\ pc' = "raised"
                /\ loc' = loc
           ELSE /\ loc' = [loc EXCEPT
                             !.inv_vals = Append(loc.inv_vals, r[1]),
                             !.fnd_vals = Append(loc.fnd_vals, r[2])]
                /\ pc' = pc
    /\ UNCHANGED <<fn, args, ret, rest>>

PwsFigure ==
    /\ pc = "pws_loop"
    /\ Len(loc.inv_vals) = Len(loc.exits)
    /\ ret' = RetBars(loc.labels, <<loc.inv_vals, loc.fnd_vals>>)
    /\ pc' = "done"
    /\ UNCHANGED <<fn, args, loc, rest>>

---------------------------------------------------------------------------

\* the caller takes the returned value; the frame is gone
Return ==
    /\ pc = "done"
    /\ fn' = "none"
    /\ args' = NoArgs
    /\ pc' = "idle"
    /\ loc' = NoLocals
    /\ ret' = NoRet
    /\ UNCHANGED rest

Next ==
    \/ CallWaterfall
    \/ WfGuard
    \/ WfPost
    \/ WfOwnerStep
    \/ WfPref
    \/ WfNonParticipating
    \/ WfParticipating
    \/ CallPlotOwnership
    \/ PoGuard
    \/ PoPost
    \/ PoNewInvestor
    \/ PoExistingStep
    \/ PoFigure
    \/ CallImpliedRevenueMultiple
    \/ IrmTest
    \/ IrmDivide
    \/ CallPlotValuation
    \/ PvGuard
    \/ PvFigure
    \/ CallPlotWaterfallScenarios
    \/ PwsGuard
    \/ PwsExits
    \/ PwsLoop
    \/ PwsFigure
    \/ Return

Spec == Init /\ [][Next]_vars

---------------------------------------------------------------------------
(* The steps of a run of main. *)

engine == <<fn, args, pc, loc, ret, parked>>

locals == <<submitted, inputs, payload, recs>>

\* the rerun after a sign-in
SignIn ==
    /\ mpc = "idle"
    /\ session_state["user"] = NoUser
    /\ \E u \in Users : session_state' = SetItem(session_state, "user", u)
    /\ UNCHANGED <<users, sess, issued, revoked, last, engine, mpc, locals, deals, shown, events, origin,
                   processed, computed>>

\* a run of main up to `if submitted:`
RunMain ==
    /\ mpc = "idle"
    /\ session_state["user"] # NoUser
    /\ \E form \in Forms, s \in BOOLEAN :
          /\ s => Len(deals) < MaxDeals
          /\ submitted' = s
          /\ inputs' = InputsOf(form)
          /\ mpc' = IF SubmitBranch(s) THEN "save_deal" ELSE "render"
    /\ payload' = NoPayload
    /\ recs' = NoRecs
    /\ events' = <<>>
    /\ UNCHANGED <<users, sess, issued, revoked, last, engine, session_state, deals, shown, origin, processed,
                   computed>>

\* the run is over: its local variables are gone
EndRun ==
    /\ mpc' = "idle"
    /\ inputs' = NoInputs
    /\ payload' = NoPayload
    /\ recs' = NoRecs
    /\ UNCHANGED submitted

SaveDeal ==
    /\ mpc = "save_deal"
    /\ deals' = Append(deals, DealRow(session_state["user"].id, inputs))
    /\ events' = Append(events, "save_deal")
    /\ mpc' = "build_payload"
    /\ UNCHANGED <<users, sess, issued, revoked, last, engine, locals, session_state, shown, origin, processed,
                   computed>>

\* the INSERT fails
SaveDealRaises ==
    /\ mpc = "save_deal"
    /\ events' = Append(events, "save_deal raised")
    /\ IF SaveDealError = "idle"
       THEN EndRun /\ shown' = NoShown
       ELSE mpc' = SaveDealError /\ UNCHANGED <<locals, shown>>
    /\ UNCHANGED <<users, sess, issued, revoked, last, engine, session_state, deals, origin, processed,
                   computed>>

BuildPayload ==
    /\ mpc = "build_payload"
    /\ payload' = build_json_payload(session_state["user"].name, inputs)
    /\ mpc' = "narrative"
    /\ UNCHANGED <<users, sess, issued, revoked, last, engine, submitted, inputs, recs, session_state, deals,
                   shown, events, origin, processed, computed>>

\* call_termsheet_gpt_with_json returns the analysis
NarrativeReturns ==
    /\ mpc = "narrative"
    /\ \E text \in AnalysisTexts : recs' = text
    /\ events' = Append(events, "narrative")
    /\ processed' = Len(deals)
    /\ mpc' = "store_recs"
    /\ UNCHANGED <<users, sess, issued, revoked, last, engine, submitted, inputs, payload, session_state, deals,
                   shown, origin, computed>>

\* the API call fails: the function returns the error message
NarrativeFails ==
    /\ mpc = "narrative"
    /\ \E text \in ApiErrorTexts : recs' = text
    /\ events' = Append(events, "narrative")
    /\ processed' = Len(deals)
    /\ mpc' = "store_recs"
    /\ UNCHANGED <<users, sess, issued, revoked, last, engine, submitted, inputs, payload, session_state, deals,
                   shown, origin, computed>>

\* get_openai_client raises: no API key is configured
NarrativeRaises ==
    /\ mpc = "narrative"
    /\ events' = Append(events, "narrative raised")
    /\ EndRun
    /\ shown' = NoShown
    /\ UNCHANGED <<users, sess, issued, revoked, last, engine, session_state, deals, origin, processed,
                   computed>>

StoreRecs ==
    /\ mpc = "store_recs"
    /\ session_state' = SetItem(session_state, "recs", recs)
    /\ origin' = [origin EXCEPT !.recs = Len(deals)]
    /\ mpc' = "store_inputs"
    /\ UNCHANGED <<users, sess, issued, revoked, last, engine, locals, deals, shown, events, processed,
                   computed>>

StoreInputs ==
    /\ mpc = "store_inputs"
    /\ session_state' = SetItem(session_state, "inputs", inputs)
    /\ origin' = [origin EXCEPT !.inputs = Len(deals)]
    /\ mpc' = "render"
    /\ UNCHANGED <<users, sess, issued, revoked, last, engine, locals, deals, shown, events, processed,
                   computed>>

\* the right column, with a stored result
Render ==
    /\ mpc = "render"
    /\ "recs" \in DOMAIN session_state
    /\ LET out == RenderOutput(session_state["recs"],
                               session_state["inputs"])
       IN  /\ shown' = out
           /\ computed' = SetItem(computed, origin.inputs,
                                   [out EXCEPT !.recs = NoRecs])
    /\ EndRun
    /\ UNCHANGED <<users, sess, issued, revoked, last, engine, session_state, deals, events, origin,
                   processed>>

\* the right column, without one
RenderEmpty ==
    /\ mpc = "render"
    /\ "recs" \notin DOMAIN session_state
    /\ shown' = NoShown
    /\ EndRun
    /\ UNCHANGED <<users, sess, issued, revoked, last, engine, session_state, deals, events, origin, processed,
                   computed>>

MainNext ==
    \/ SignIn
    \/ RunMain
    \/ SaveDeal
    \/ SaveDealRaises
    \/ BuildPayload
    \/ NarrativeReturns
    \/ NarrativeFails
    \/ NarrativeRaises
    \/ StoreRecs
    \/ StoreInputs
    \/ Render
    \/ RenderEmpty

MainSpec == Init /\ [][MainNext]_vars

---------------------------------------------------------------------------
(* Engine calls of two requests, interleaved.  The request that is not     *)
(* running keeps its frame in parked; a switch may come between any two    *)
(* statements.                                                             *)

\* the calls the requests issue: the form's default deal and its variants
ConcCalls ==
    {<<"waterfall", a, "wf_guard">> : a \in ExampleArgs}
      \cup {<<"plot_ownership", a, "po_guard">> :
               a \in {x \in OwnershipArgs : x.pre = Num(10000000)}}
      \cup {<<"implied_revenue_multiple", a, "irm_test">> :
               a \in {x \in MultipleArgs : x.pre = Num(10000000)}}
      \cup {<<"plot_valuation", a, "pv_guard">> :
               a \in {x \in ValuationArgs :
                         x.pre \in {Num(0), Num(10000000)}}}
      \cup {<<"plot_waterfall_scenarios", a, "pws_guard">> :
               a \in {x \in ExampleArgs : x.equity = Num(0)}}

\* the local variables were globals of the module
GlobalLocals(own, current) == current

\* the local variables a resumed call sees are its own
FrameLocals(own, current) == own

session ==
    <<mpc, locals, session_state, deals, shown, events, origin, processed,
      computed, users, sess, issued, revoked, last>>

RequestCall ==
    /\ pc = "idle"
    /\ \E c \in ConcCalls : Call(c[1], c[2], c[3])

Statement ==
    \/ WfGuard
    \/ WfPost
    \/ WfOwnerStep
    \/ WfPref
    \/ WfNonParticipating
    \/ WfParticipating
    \/ PoGuard
    \/ PoPost
    \/ PoNewInvestor
    \/ PoExistingStep
    \/ PoFigure
    \/ IrmTest
    \/ IrmDivide
    \/ PvGuard
    \/ PvFigure
    \/ PwsGuard
    \/ PwsExits
    \/ PwsLoop
    \/ PwsFigure

\* the other request runs on
Switch ==
    /\ fn' = parked.fn
    /\ args' = parked.args
    /\ pc' = parked.pc
    /\ loc' = FrameLocals(parked.loc, loc)
    /\ ret' = parked.ret
    /\ parked' = [fn |-> fn, args |-> args, pc |-> pc, loc |-> loc,
                  ret |-> ret]
    /\ UNCHANGED session

ConcNext ==
    \/ RequestCall
    \/ Statement
    \/ Switch
    \/ Return

ConcSpec == Init /\ [][ConcNext]_vars

---------------------------------------------------------------------------
(* The steps of main up to the deal form, of signin_form and signup_form, *)
(* and the sign-out, for each browser session.                             *)

others ==
    <<engine, mpc, locals, session_state, deals, shown, events, origin,
      processed, computed>>

\* the session s with some of its fields changed
Put(s, new) == sess' = [sess EXCEPT ![s] = new]

\* main, lines 1031-1060: the auto-login from the cookie, then the auth
\* screen or the app
AutoLogin(s) ==
    /\ sess[s].at = "start"
    /\ LET me == [sess[s] EXCEPT !.form = NoForm]
           th == Sha256(me.cookie)
           rows == RowsByTokenHash(users, th)
       IN  IF me.user = NoSessionUser /\ me.cookie # NoCookie
           THEN IF rows # {}
                THEN /\ Put(s, [me EXCEPT
                                  !.user = SessionUser(users[FirstOf(rows)]),
                                  !.at = "app"])
                     /\ last' = [kind |-> "cookie", session |-> s,
                                 uid |-> users[FirstOf(rows)].id]
                ELSE /\ Put(s, [me EXCEPT !.cookie = NoCookie,
                                          !.at = "auth"])
                     /\ last' = [kind |-> "cookie refused", session |-> s,
                                 uid |-> 0]
           ELSE /\ Put(s, [me EXCEPT
                             !.at = IF me.user = NoSessionUser
                                    THEN "auth" ELSE "app"])
                /\ last' = NoEvent
    /\ UNCHANGED <<users, issued, revoked, others>>

\* signin_form, lines 849-852 and 872-874
SubmitSignin(s) ==
    /\ sess[s].at = "auth"
    /\ \E email \in Emails, pw \in Passwords, remember \in BOOLEAN :
          LET me == sess[s]
              rows == RowsByEmail(users, email)
              form == [name |-> "", email |-> email, pw |-> pw,
                       remember |-> remember]
          IN  /\ remember => Len(issued) < MaxTokens
              /\ IF rows # {}
                    /\ verify_password(pw, users[FirstOf(rows)].password_hash)
                 THEN Put(s, [me EXCEPT
                                !.user = SessionUser(users[FirstOf(rows)]),
                                !.form = form,
                                !.at = IF remember THEN "remember"
                                       ELSE "start"])
                 ELSE Put(s, me)
    /\ last' = NoEvent
    /\ UNCHANGED <<users, issued, revoked, others>>

\* signin_form lines 854-869, signup_form lines 903-917: the token, its
\* hash in the user's row, the cookie, the rerun
Remember(s) ==
    /\ sess[s].at = "remember"
    /\ Len(issued) < MaxTokens
    /\ LET me == sess[s]
           raw_token == Len(issued) + 1
       IN  /\ users' = SetTokenHash(users, me.user.id, Sha256(raw_token))
           /\ issued' = Append(issued, me.user.id)
           /\ \E c \in CookieWrites(me.cookie, raw_token) :
                 Put(s, [me EXCEPT !.cookie = c, !.form = NoForm,
                                   !.at = "start"])
    /\ last' = NoEvent
    /\ UNCHANGED <<revoked, others>>

\* signup_form, lines 888-900: the checks before create_user
SubmitSignup(s) ==
    /\ sess[s].at = "auth"
    /\ \E name \in {"", "Ada"}, email \in Emails \cup {""},
          pw \in Passwords, pw2 \in Passwords, remember \in BOOLEAN :
          LET me == sess[s]
              form == [name |-> name, email |-> email, pw |-> pw,
                       remember |-> remember]
          IN  /\ remember => Len(issued) < MaxTokens
              /\ IF name = "" \/ email = "" \/ pw = "" THEN Put(s, me)
                 ELSE IF pw # pw2 THEN Put(s, me)
                 ELSE IF RowsByEmail(users, email) # {} THEN Put(s, me)
                 ELSE Put(s, [me EXCEPT !.form = form,
                                        !.at = "create_user"])
    /\ last' = NoEvent
    /\ UNCHANGED <<users, issued, revoked, others>>

\* create_user and signup_form lines 902-904, 919-922
CreateUser(s) ==
    /\ sess[s].at = "create_user"
    /\ LET me == sess[s]
           uid == Len(users) + 1
       IN  IF EmailUnique(users, me.form.email)
           THEN \E salt \in Salts :
                   LET row == [id |-> uid, name |-> me.form.name,
                               email |-> me.form.email,
                               password_hash |->
                                   hash_password(me.form.pw, salt),
                               remember_token_hash |-> Null]
                   IN  /\ users' = Append(users, row)
                       /\ Put(s, [me EXCEPT
                                    !.user = SessionUser(row),
                                    !.form = NoForm,
                                    !.at = IF me.form.remember
                                           THEN "remember" ELSE "start"])
                       /\ last' = NoEvent
           ELSE /\ users' = users
                /\ Put(s, [me EXCEPT !.form = NoForm, !.at = "auth"])
                /\ last' = [kind |-> "signup failed", session |-> s,
                            uid |-> 0]
    /\ UNCHANGED <<issued, revoked, others>>

\* main, lines 1087-1096
SignOut(s) ==
    /\ sess[s].at = "app"
    /\ LET me == sess[s]
           uid == me.user.id
           row == users[FirstOf({i \in 1..Len(users) : users[i].id = uid})]
       IN  /\ users' = SetTokenHash(users, uid,
                                    ClearedHash(row.remember_token_hash))
           /\ \E c \in CookieWrites(me.cookie, NoCookie) :
                 Put(s, [me EXCEPT !.cookie = c, !.user = NoSessionUser,
                                   !.at = "start"])
           /\ revoked' = revoked
                 \cup {t \in 1..Len(issued) : issued[t] = uid}
           /\ last' = [kind |-> "signout", session |-> s, uid |-> uid]
    /\ UNCHANGED <<issued, others>>

\* the page is loaded anew: a new session state, the cookies of the
\* browser
Reload(s) ==
    /\ sess[s].at \in {"auth", "app"}
    /\ Put(s, [sess[s] EXCEPT !.user = NoSessionUser, !.form = NoForm,
                              !.at = "start"])
    /\ last' = NoEvent
    /\ UNCHANGED <<users, issued, revoked, others>>

AuthNext ==
    \E s \in Sessions :
        \/ AutoLogin(s)
        \/ SubmitSignin(s)
        \/ Remember(s)
        \/ SubmitSignup(s)
        \/ CreateUser(s)
        \/ SignOut(s)
        \/ Reload(s)

AuthSpec == Init /\ [][AuthNext]_vars


---------------------------------------------------------------------------
(* Vocabulary of the properties, stated on the arguments of the running   *)
(* call and independently of the operators above.                          *)

WfReturned == fn = "waterfall" /\ pc = "done"

PoReturned == fn = "plot_ownership" /\ pc = "done"

IrmReturned == fn = "implied_revenue_multiple" /\ pc = "done"

Positive(x) == x[1] > 0 /\ x[2] > 0

\* pre > 0, invest > 0, liq_mult > 0, exit_v > 0
AllPositive ==
    /\ Positive(args.pre)
    /\ Positive(args.invest)
    /\ Positive(args.liq_mult)
    /\ Positive(args.exit_v)

EquityInRange == RLe(Zero, args.equity) /\ RLe(args.equity, Hundred)

NonParticipatingType ==
    args.liq_type \in {NonParticipatingPreferred, NonParticipatingUpper}

ParticipatingType == args.liq_type = ParticipatingPreferred

\* owner = equity/100 if equity > 0 else invest/(pre+invest)
ClaimedOwner ==
    IF Positive(args.equity)
    THEN Rat(args.equity[1], 100 * args.equity[2])
    ELSE RDiv(args.invest, RAdd(args.pre, args.invest))

ClaimedPref == RMul(args.invest, args.liq_mult)

ExampleDeal(equity) ==
    /\ args.pre = Num(10000000)
    /\ args.invest = Num(3000000)
    /\ args.equity = Num(equity)

ExampleWaterfall ==
    /\ ExampleDeal(20)
    /\ args.liq_mult = Num(1)
    /\ args.exit_v = Num(50000000)

---------------------------------------------------------------------------
\* C1: every non-degenerate call of waterfall with equity in [0,100], in
\* either branch, returns investor_payout >= 0, founder_payout >= 0 and
\* investor_payout + founder_payout <= exit_v.
C1_PayoutsWithinExit ==
    (WfReturned /\ AllPositive /\ EquityInRange) =>
        /\ ret.kind = "tuple"
        /\ RLe(Zero, ret.a)
        /\ RLe(Zero, ret.b)
        /\ RLe(RAdd(ret.a, ret.b), args.exit_v)

\* a call where both parties are paid and the preference exceeds the
\* investor's pro-rata share
C1_Witness ==
    /\ WfReturned /\ AllPositive /\ EquityInRange
    /\ NonParticipatingType
    /\ Positive(ret.a) /\ Positive(ret.b)
    /\ RLt(RMul(ClaimedOwner, args.exit_v), ClaimedPref)

\* C2: every non-degenerate call of waterfall, in either branch, distributes
\* the exit value exactly: investor_payout + founder_payout = exit_v.
C2_NoShortfall ==
    (WfReturned /\ AllPositive) =>
        /\ ret.kind = "tuple"
        /\ RAdd(ret.a, ret.b) = args.exit_v

\* a participating call whose preference exceeds the exit: the cap applies
C2_Witness ==
    /\ WfReturned /\ AllPositive
    /\ ParticipatingType
    /\ RLt(args.exit_v, ClaimedPref)
    /\ ret.a = args.exit_v
    /\ ret.b = Zero

\* C3: whenever one of pre, invest, liq_mult, exit_v is <= 0, waterfall
\* returns (0, 0) from its first statement: post, owner and pref are never
\* computed and no division is evaluated.
C3_DegenerateIsZero ==
    (fn = "waterfall" /\ ~AllPositive) =>
        /\ pc \in {"wf_guard", "done"}
        /\ loc = NoLocals
        /\ pc = "done" => ret = RetTuple(<<Zero, Zero>>)

\* a returned call whose only non-positive argument is the exit value
C3_Witness ==
    /\ WfReturned
    /\ Positive(args.pre) /\ Positive(args.invest) /\ Positive(args.liq_mult)
    /\ args.exit_v = Zero
    /\ ret = RetTuple(<<Zero, Zero>>)

\* C4: a non-degenerate non-participating call returns
\* investor_payout = min(max(invest*liq_mult, owner*exit_v), exit_v) and
\* founder_payout = max(exit_v - investor_payout, 0), the pro-rata share
\* taken on the whole exit value; the example deal at 20 % and an exit of
\* 50,000,000 returns (10,000,000, 40,000,000).
C4_NonParticipatingFormula ==
    (WfReturned /\ AllPositive /\ NonParticipatingType) =>
        LET inv == RMin(RMax(ClaimedPref, RMul(ClaimedOwner, args.exit_v)),
                        args.exit_v)
        IN  /\ ret = RetTuple(<<inv, RMax(RSub(args.exit_v, inv), Zero)>>)
            /\ ExampleWaterfall =>
                  ret = RetTuple(<<Num(10000000), Num(40000000)>>)

C4_Witness ==
    /\ WfReturned /\ ExampleWaterfall /\ NonParticipatingType
    /\ ret = RetTuple(<<Num(10000000), Num(40000000)>>)

\* C5: a non-degenerate participating call returns
\* investor_payout = min(pref + owner*max(exit_v - pref, 0), exit_v) with
\* pref = invest*liq_mult and founder_payout = max(exit_v - investor_payout,
\* 0); the example deal returns (12,400,000, 37,600,000).
C5_ParticipatingFormula ==
    (WfReturned /\ AllPositive /\ ParticipatingType) =>
        LET remaining == RMax(RSub(args.exit_v, ClaimedPref), Zero)
            inv == RMin(RAdd(ClaimedPref, RMul(ClaimedOwner, remaining)),
                        args.exit_v)
        IN  /\ ret = RetTuple(<<inv, RMax(RSub(args.exit_v, inv), Zero)>>)
            /\ ExampleWaterfall =>
                  ret = RetTuple(<<Num(12400000), Num(37600000)>>)

C5_Witness ==
    /\ WfReturned /\ ExampleWaterfall /\ ParticipatingType
    /\ ret = RetTuple(<<Num(12400000), Num(37600000)>>)

\* C6: in the non-participating branch, with the other arguments fixed, a
\* smaller positive exit value never gives a larger investor payout, and
\* once the smaller exit value is at least the preference it never gives a
\* larger founder payout.
C6_NonParticipatingMonotone ==
    (WfReturned /\ AllPositive /\ NonParticipatingType) =>
        \A e1 \in ExitValues :
            (Positive(e1) /\ RLe(e1, args.exit_v)) =>
                LET r1 == waterfall(args.pre, args.invest, args.liq_mult,
                                    args.liq_type, args.equity, e1)
                IN  /\ RLe(r1[1], ret.a)
                    /\ RLe(ClaimedPref, e1) => RLe(r1[2], ret.b)

\* two exit values above the preference at which both payouts grow strictly
C6_Witness ==
    /\ WfReturned /\ AllPositive /\ NonParticipatingType
    /\ \E e1 \in ExitValues :
          /\ Positive(e1) /\ RLt(e1, args.exit_v) /\ RLt(ClaimedPref, e1)
          /\ LET r1 == waterfall(args.pre, args.invest, args.liq_mult,
                                 args.liq_type, args.equity, e1)
             IN  RLt(r1[1], ret.a) /\ RLt(r1[2], ret.b) /\ Positive(r1[2])

\* C7: for the same non-degenerate deal and an exit value above the
\* preference, the participating investor payout is at least the
\* non-participating one.
C7_ParticipatingAtLeastNonParticipating ==
    (WfReturned /\ AllPositive /\ ParticipatingType
        /\ RLt(ClaimedPref, args.exit_v)) =>
        RLe(waterfall(args.pre, args.invest, args.liq_mult,
                      NonParticipatingPreferred, args.equity, args.exit_v)[1],
            ret.a)

\* a deal where the double dip pays strictly more
C7_Witness ==
    /\ WfReturned /\ AllPositive /\ ParticipatingType
    /\ RLt(ClaimedPref, args.exit_v)
    /\ RLt(waterfall(args.pre, args.invest, args.liq_mult,
                     NonParticipatingPreferred, args.equity, args.exit_v)[1],
           ret.a)
    /\ RLt(ret.a, args.exit_v)

\* C8: plot_ownership returns None when pre <= 0 or invest <= 0; otherwise
\* the new-investor value is equity_pct when equity_pct > 0 and
\* invest/(pre+invest)*100 when equity_pct is 0, the existing-holders value
\* is max(100 - new, 0), never negative, and the two sum to 100 whenever
\* new <= 100; (10,000,000, 3,000,000, 0) gives 300/13 and 1000/13.
C8_OwnershipSplit ==
    PoReturned =>
        IF ~(Positive(args.pre) /\ Positive(args.invest))
        THEN ret = RetNone
        ELSE /\ ret.kind = "fig"
             /\ Positive(args.equity) => ret.a = args.equity
             /\ args.equity = Zero =>
                   ret.a = RMul(RDiv(args.invest, RAdd(args.pre, args.invest)),
                                Hundred)
             /\ ret.b = RMax(RSub(Hundred, ret.a), Zero)
             /\ RLe(Zero, ret.b)
             /\ RLe(ret.a, Hundred) => RAdd(ret.a, ret.b) = Hundred
             /\ ExampleDeal(0) => ret = RetFig(Rat(300, 13), Rat(1000, 13))

C8_Witness ==
    /\ PoReturned /\ ExampleDeal(0)
    /\ ret = RetFig(Rat(300, 13), Rat(1000, 13))

\* C9: in waterfall and in plot_ownership the division invest / post is
\* evaluated only with post > 0, whatever the arguments; neither function
\* raises ZeroDivisionError.
C9_NoDivisionByZero ==
    /\ (fn = "waterfall" /\ pc = "wf_owner" /\ ~Positive(args.equity)) =>
          Positive(loc.post)
    /\ (fn = "plot_ownership" /\ pc = "po_new" /\ ~Positive(args.equity)) =>
          Positive(loc.post)
    /\ fn \in {"waterfall", "plot_ownership"} => pc # "raised"

\* the division of waterfall has been evaluated, with a negative equity
C9_Witness ==
    /\ fn = "waterfall" /\ pc = "wf_pref"
    /\ RLt(args.equity, Zero)
    /\ loc.owner = RDiv(args.invest, loc.post)
    /\ Positive(loc.post)

\* C10: implied_revenue_multiple returns pre / rev when rev > 0 and None,
\* without raising, when rev <= 0; (10,000,000, 0) is None and
\* (10,000,000, 2,000,000) is 5.
C10_ImpliedRevenueMultiple ==
    /\ fn = "implied_revenue_multiple" => pc # "raised"
    /\ IrmReturned =>
          /\ Positive(args.rev) => ret = RetFloat(RDiv(args.pre, args.rev))
          /\ ~Positive(args.rev) => ret = RetNone
          /\ (args.pre = Num(10000000) /\ args.rev = Num(2000000)) =>
                ret = RetFloat(Num(5))

C10_Witness ==
    /\ IrmReturned
    /\ args.pre = Num(10000000) /\ args.rev = Num(2000000)
    /\ ret = RetFloat(Num(5))

---------------------------------------------------------------------------
PvReturned == fn = "plot_valuation" /\ pc = "done"

PwsReturned == fn = "plot_waterfall_scenarios" /\ pc = "done"

\* C11: plot_valuation plots the ordered triple (0.8*pre, pre, 1.2*pre) for
\* downside, base and upside when pre > 0 and returns None when pre <= 0.
C11_ValuationSensitivity ==
    PvReturned =>
        IF Positive(args.pre)
        THEN /\ ret.kind = "fig"
             /\ ret.a = <<"-20%", "Base", "+20%">>
             /\ ret.b = <<<<Rat(4 * args.pre[1], 5 * args.pre[2]), args.pre,
                           Rat(6 * args.pre[1], 5 * args.pre[2])>>>>
        ELSE ret = RetNone

\* a pre-money of 10,000,000 plotted as 8,000,000, 10,000,000, 12,000,000
C11_Witness ==
    /\ PvReturned
    /\ args.pre = Num(10000000)
    /\ ret.b = <<<<Num(8000000), Num(10000000), Num(12000000)>>>>

\* the exit values 0.5*base_exit, base_exit, 2*base_exit
ClaimedExits ==
    <<Rat(args.exit_v[1], 2 * args.exit_v[2]), args.exit_v,
      Rat(2 * args.exit_v[1], args.exit_v[2])>>

\* C12: plot_waterfall_scenarios returns None when base_exit <= 0; otherwise
\* it plots exactly three scenarios, in the order 0.5, 1.0, 2.0 times
\* base_exit, and the investor and founder values of scenario i are those
\* that waterfall returns for the same deal at exit value i; a base exit of
\* 50,000,000 gives 25,000,000, 50,000,000, 100,000,000.
C12_ScenarioSweep ==
    PwsReturned =>
        IF ~Positive(args.exit_v)
        THEN ret = RetNone
        ELSE /\ ret.kind = "fig"
             /\ loc.exits = ClaimedExits
             /\ Len(ret.a) = 3 /\ Len(ret.b[1]) = 3 /\ Len(ret.b[2]) = 3
             /\ <<ret.a[1][1], ret.a[2][1], ret.a[3][1]>>
                   = <<"0.5x", "1.0x", "2.0x">>
             /\ \A i \in 1..3 :
                   <<ret.b[1][i], ret.b[2][i]>> =
                       waterfall(args.pre, args.invest, args.liq_mult,
                                 args.liq_type, args.equity, ClaimedExits[i])
             /\ args.exit_v = Num(50000000) =>
                   /\ loc.exits =
                        <<Num(25000000), Num(50000000), Num(100000000)>>
                   /\ <<ret.a[1][2], ret.a[2][2], ret.a[3][2]>>
                        = <<25000000, 50000000, 100000000>>

\* the example deal at 20 %, non-participating, over a base exit of
\* 50,000,000: the investor converts in all three scenarios
C12_Witness ==
    /\ PwsReturned /\ ExampleWaterfall /\ NonParticipatingType
    /\ ret.b = <<<<Num(5000000), Num(10000000), Num(20000000)>>,
                 <<Num(20000000), Num(40000000), Num(80000000)>>>>

---------------------------------------------------------------------------
EngineFunctions ==
    {"implied_revenue_multiple", "plot_valuation", "plot_ownership",
     "waterfall", "plot_waterfall_scenarios"}

StatementLabels ==
    {"irm_test", "irm_div", "pv_guard", "pv_fig", "wf_guard", "wf_post",
     "wf_owner", "wf_pref", "wf_branch", "po_guard", "po_post", "po_new",
     "po_existing", "po_fig", "pws_guard", "pws_exits", "pws_loop"}

\* the largest number of statements a running call may still execute
StatementsLeft ==
    CASE pc \in {"irm_test", "pv_guard"} -> 2
      [] pc \in {"irm_div", "pv_fig", "wf_branch", "po_fig"} -> 1
      [] pc \in {"wf_guard", "po_guard"} -> 5
      [] pc \in {"wf_post", "po_post"} -> 4
      [] pc \in {"wf_owner", "po_new"} -> 3
      [] pc \in {"wf_pref", "po_existing"} -> 2
      [] pc = "pws_guard" -> 6
      [] pc = "pws_exits" -> 5
      [] pc = "pws_loop" -> 4 - Len(loc.inv_vals)
      [] OTHER -> 0

\* a statement of a running call leaves fewer statements to execute
StatementAdvances ==
    pc \in StatementLabels =>
        /\ StatementsLeft' < StatementsLeft
        /\ StatementsLeft' >= 0
        /\ pc' \in StatementLabels \cup {"done"}

EngineResultDefined ==
    fn \in EngineFunctions =>
        /\ pc \in StatementLabels \cup {"done"}
        /\ pc = "done" => ret.kind \in {"tuple", "float", "fig", "None"}

\* C14: whatever the numeric arguments, zero and negative ones included,
\* a call of an engine function never raises, every statement it executes
\* brings it nearer to its return, and what it returns is a value or None.
C14_AlwaysDefinedResult ==
    []EngineResultDefined /\ [][StatementAdvances]_vars

\* a scenario sweep returned for a deal whose amounts are all zero or
\* negative
C14_Witness ==
    /\ PwsReturned
    /\ args.pre = Zero /\ args.invest = Num(-1) /\ args.liq_mult = Zero
    /\ args.exit_v = Num(1)
    /\ ret.kind = "fig"

\* the two results of the formulas of waterfall, on the claimed owner
ClaimedNonParticipating ==
    LET inv == RMin(RMax(ClaimedPref, RMul(ClaimedOwner, args.exit_v)),
                    args.exit_v)
    IN  RetTuple(<<inv, RMax(RSub(args.exit_v, inv), Zero)>>)

ClaimedParticipating ==
    LET remaining == RMax(RSub(args.exit_v, ClaimedPref), Zero)
        inv == RMin(RAdd(ClaimedPref, RMul(ClaimedOwner, remaining)),
                    args.exit_v)
    IN  RetTuple(<<inv, RMax(RSub(args.exit_v, inv), Zero)>>)

\* the strings of the model whose lower case contains "non-participating"
ContainsNonParticipating ==
    {NonParticipatingPreferred, NonParticipatingUpper,
     NonParticipatingPreferredUpper, NonParticipatingMixed}

\* C18: waterfall takes the non-participating formula exactly for the
\* strings whose lower case contains "non-participating" and the
\* participating formula for every other string; the two options of the
\* form select their branch in any letter case.
C18_BranchSelection ==
    (WfReturned /\ AllPositive) =>
        IF args.liq_type \in ContainsNonParticipating
        THEN ret = ClaimedNonParticipating
        ELSE ret = ClaimedParticipating

\* the upper-case spelling of the form's first option took the
\* non-participating formula, where the two formulas differ
C18_Witness ==
    /\ WfReturned /\ AllPositive
    /\ args.liq_type = NonParticipatingPreferredUpper
    /\ ret = ClaimedNonParticipating
    /\ ret # ClaimedParticipating

---------------------------------------------------------------------------
(* Properties of main. *)

\* the fields of a deal that the engine reads
EngineFields ==
    {"pre_money", "investment_amount", "equity_percentage", "liq_multiple",
     "liq_type", "assumed_exit", "revenue"}

\* the engine functions evaluated on a row of the deals table
EngineOnRow(row) ==
    [multiple |-> implied_revenue_multiple(row.pre_money, row.revenue),
     ownership |-> plot_ownership(row.pre_money, row.investment_amount,
                                  row.equity_percentage),
     scenarios |-> plot_waterfall_scenarios(row.pre_money,
                       row.investment_amount, row.liq_multiple,
                       row.liq_type, row.equity_percentage,
                       row.assumed_exit)]

\* C13: the row saved by a submission holds every field the engine reads,
\* and the engine functions evaluated on that row give the multiple, the
\* ownership split and the waterfall values rendered for that submission,
\* however many submissions and runs came after it.
C13_RecomputableFromRow ==
    \A k \in DOMAIN computed :
        /\ k \in 1..Len(deals)
        /\ EngineFields \subseteq DOMAIN deals[k]
        /\ \A f \in EngineFields \ {"liq_type"} : deals[k][f] # None
        /\ LET again == EngineOnRow(deals[k])
           IN  /\ computed[k].multiple \in {NoRet, again.multiple}
               /\ computed[k].ownership = again.ownership
               /\ computed[k].scenarios = again.scenarios

\* the results of the first submission are still those of its row after a
\* second, different deal was saved
C13_Witness ==
    /\ mpc = "idle"
    /\ Len(deals) = 2
    /\ deals[1].equity_percentage # deals[2].equity_percentage
    /\ 1 \in DOMAIN computed
    /\ computed[1].multiple.kind = "float"
    /\ computed[1].ownership.kind = "fig"
    /\ computed[1].scenarios.kind = "fig"

NarrativeCalls == {"narrative", "narrative raised"}

SaveDealCalls == {"save_deal", "save_deal raised"}

Count(seq, S) == Cardinality({i \in 1..Len(seq) : seq[i] \in S})

\* C16: a run of main calls save_deal at most once and the narrative
\* generator at most once, calls neither without a submission, and calls
\* the narrative generator only after save_deal has returned.
C16_OncePerSubmission ==
    /\ Count(events, NarrativeCalls) <= 1
    /\ Count(events, SaveDealCalls) <= 1
    /\ ~submitted => Len(events) = 0
    /\ \A i \in 1..Len(events) :
          events[i] \in NarrativeCalls =>
              \E j \in 1..(i - 1) : events[j] = "save_deal"

\* a second submission was saved and then sent to the generator, once
C16_Witness ==
    /\ mpc = "idle"
    /\ submitted
    /\ Len(deals) = 2
    /\ events = <<"save_deal", "narrative">>

\* the projection of the name and the submitted inputs
ClaimedProjection(name, deal) ==
    [founder |-> [name |-> name],
     company |->
        [name |-> deal.company_name, industry |-> deal.industry,
         stage |-> deal.stage, country |-> deal.country,
         description |-> deal.description],
     round |->
        [round_label |-> deal.round_label, round_type |-> deal.instrument,
         currency |-> deal.currency,
         pre_money_valuation |-> deal.pre_money,
         investment_amount |-> deal.investment_amount,
         equity_percentage |-> deal.equity_percentage,
         assumed_exit_value |-> deal.assumed_exit],
     traction |->
        [annual_revenue |-> deal.revenue,
         yoy_growth_percent |-> deal.growth],
     proposed_terms |->
        [liquidation_preference_multiple |-> deal.liq_multiple,
         liquidation_preference_type |-> deal.liq_type,
         anti_dilution_protection |-> deal.anti_dilution,
         board_seats_for_investors |-> deal.board_seats,
         board_terms_text |-> deal.board_terms_text,
         veto_rights_text |-> deal.veto_terms_text,
         safes_notes_details |-> deal.safes_notes_details,
         option_pool_post_percent |-> deal.option_pool_post,
         other_terms |-> deal.other_terms],
     priorities |->
        [valuation_priority_1_to_5 |-> deal.prio_valuation,
         dilution_priority_1_to_5 |-> deal.prio_dilution,
         control_priority_1_to_5 |-> deal.prio_control,
         speed_to_close_priority_1_to_5 |-> deal.prio_speed,
         notes |-> deal.priority_notes],
     investor_context |->
        [investor_type |-> deal.investor_type, leverage |-> deal.leverage,
         reputation |-> deal.investor_reputation]]

PayloadBuilt == mpc \in {"narrative", "store_recs", "store_inputs"}

\* the numbers shown are those of the stored inputs under the reply text
SameNumbersUnder(text) ==
    LET out == RenderOutput(text, session_state["inputs"])
    IN  /\ shown.valuation = out.valuation
        /\ shown.multiple = out.multiple
        /\ shown.ownership = out.ownership
        /\ shown.scenarios = out.scenarios

\* C17: the payload handed to the narrative generator is the projection of
\* the user's name and the submitted inputs and holds nothing else, so
\* equal names and inputs give equal payloads; and the numbers rendered
\* are the same whichever text the generator returned.
C17_PayloadOfInputsOnly ==
    /\ PayloadBuilt =>
          payload = ClaimedProjection(session_state["user"].name, inputs)
    /\ (mpc = "idle" /\ shown.recs # NoRecs) =>
          \A text \in AnalysisTexts \cup ApiErrorTexts :
              SameNumbersUnder(text)

\* a payload of the deal with the equity left at 0 got the error message
\* as its reply
C17_Witness ==
    /\ mpc = "store_recs"
    /\ recs \in ApiErrorTexts
    /\ payload.founder.name = "Grace"
    /\ payload.round.equity_percentage = Zero
    /\ payload.round.pre_money_valuation = Num(10000000)

\* C19: the percentage in the caption under the ownership chart is the
\* new-investor percentage plotted, to one decimal.
C19_CaptionMatchesChart ==
    shown.ownership.kind = "fig" =>
        shown.caption = Format1f(shown.ownership.a)

AtRest == mpc \in {"idle", "render"}

\* recs and inputs are both absent, or both of the submission whose
\* narrative call returned last, and the inputs are those of its row
SessionOfOneSubmission ==
    AtRest =>
        /\ ("recs" \in DOMAIN session_state)
              <=> ("inputs" \in DOMAIN session_state)
        /\ origin.recs = origin.inputs
        /\ origin.recs = processed
        /\ "recs" \notin DOMAIN session_state => origin.recs = 0
        /\ "recs" \in DOMAIN session_state =>
              /\ origin.recs \in 1..Len(deals)
              /\ deals[origin.recs]
                    = DealRow(session_state["user"].id,
                              session_state["inputs"])

\* what is shown is the stored narrative with the charts of the stored
\* inputs
ShownOfSession ==
    (mpc = "idle" /\ shown.recs # NoRecs) =>
        /\ shown.recs = session_state["recs"]
        /\ SameNumbersUnder(session_state["recs"])

SaveFailureEndsRun ==
    "save_deal raised" \in {events[i] : i \in 1..Len(events)} =>
        /\ mpc = "idle"
        /\ Count(events, NarrativeCalls) = 0

SaveFailureChangesNothing ==
    (mpc = "save_deal" /\ deals' = deals) =>
        /\ session_state' = session_state
        /\ origin' = origin
        /\ mpc' = "idle"

\* C20: between the steps of main, session recs and inputs are both
\* absent or both set by the submission processed last, and what is
\* shown belongs to them; a failing save_deal ends the run with both
\* unchanged and without a narrative call.
C20_RecsAndInputsTogether ==
    /\ [](SessionOfOneSubmission /\ ShownOfSession /\ SaveFailureEndsRun)
    /\ [][SaveFailureChangesNothing]_vars

\* a failing save_deal after a processed submission left the session of
\* that submission in place
C20_Witness ==
    /\ mpc = "idle"
    /\ events = <<"save_deal raised">>
    /\ "recs" \in DOMAIN session_state
    /\ origin.recs = 1
    /\ processed = 1

---------------------------------------------------------------------------
(* Properties of interleaved calls. *)

\* what a call returns when it runs alone
ResultAlone(f, a) ==
    CASE f = "waterfall" ->
            LET t == waterfall(a.pre, a.invest, a.liq_mult, a.liq_type,
                               a.equity, a.exit_v)
            IN  IF t = ZeroDivisionError THEN RetRaised ELSE RetTuple(t)
      [] f = "plot_ownership" -> plot_ownership(a.pre, a.invest, a.equity)
      [] f = "implied_revenue_multiple" ->
            implied_revenue_multiple(a.pre, a.rev)
      [] f = "plot_valuation" -> plot_valuation(a.pre)
      [] f = "plot_waterfall_scenarios" ->
            plot_waterfall_scenarios(a.pre, a.invest, a.liq_mult,
                                     a.liq_type, a.equity, a.exit_v)

\* C15: however the statements of the engine calls of two requests are
\* interleaved, each call returns what it returns when it runs alone.
C15_InterleavingInvisible ==
    /\ pc = "done" => ret = ResultAlone(fn, args)
    /\ parked.pc = "done" => parked.ret = ResultAlone(parked.fn, parked.args)

\* a waterfall call returned while the ownership call of the other
\* request, on another equity, was stopped after its second statement
C15_Witness ==
    /\ fn = "waterfall" /\ pc = "done"
    /\ args.equity = Num(20)
    /\ parked.fn = "plot_ownership" /\ parked.pc = "po_new"
    /\ parked.args.equity = Num(0)
    /\ ret = ResultAlone(fn, args)

---------------------------------------------------------------------------
(* Properties of a failing narrative call. *)

EventsOfRun == {events[i] : i \in 1..Len(events)}

\* the run whose narrative call failed is over
FailedRunOver ==
    /\ mpc = "idle"
    /\ \/ "narrative raised" \in EventsOfRun
       \/ /\ "narrative" \in EventsOfRun
          /\ "recs" \in DOMAIN session_state
          /\ session_state["recs"] \in ApiErrorTexts

---------------------------------------------------------------------------
(* Properties of the accounts. *)

HashOfToken(t) == <<"sha256", t>>

\* the stored hash of the account uid
StoredTokenHash(uid) ==
    users[CHOOSE i \in 1..Len(users) : users[i].id = uid]
        .remember_token_hash

\* the state a sign-out leaves
SignOutClears ==
    last.kind = "signout" =>
        /\ StoredTokenHash(last.uid) = Null
        /\ sess[last.session].user = NoSessionUser

\* no stored hash is that of a token issued before a sign-out of its user
RevokedMatchesNoRow ==
    \A t \in revoked : \A i \in 1..Len(users) :
        users[i].remember_token_hash # HashOfToken(t)

\* a run of session s that starts without a user and with a cookie issued
\* before a sign-out of its user ends on the auth screen, without a user
RevokedCookieRefused ==
    \A s \in Sessions :
        (/\ sess[s].at = "start"
         /\ sess[s].user = NoSessionUser
         /\ sess[s].cookie \in revoked
         /\ sess'[s] # sess[s])
            => /\ sess'[s].user = NoSessionUser
               /\ sess'[s].at = "auth"

\* C22: a sign-out leaves the user's remember_token_hash NULL and the
\* session without a user, and from then on no run that presents a
\* remember cookie issued to that user before the sign-out signs anyone
\* in.
C22_SignOutRevokesCookie ==
    /\ [](SignOutClears /\ RevokedMatchesNoRow)
    /\ [][RevokedCookieRefused]_vars

\* after a sign-out in session 1, session 2 is about to run with a cookie
\* issued to the same user before that sign-out
C22_Witness ==
    /\ last.kind = "signout"
    /\ last.session = 1
    /\ sess[2].at = "start"
    /\ sess[2].user = NoSessionUser
    /\ sess[2].cookie \in revoked

BecomesSet(s) ==
    sess[s].user = NoSessionUser /\ sess'[s].user # NoSessionUser

\* the password submitted is the one the stored hash was made of
ByPassword(s) ==
    /\ sess[s].at = "auth"
    /\ \E i \in 1..Len(users) :
          /\ users[i].email = sess'[s].form.email
          /\ users[i].password_hash[2]
                = <<"sha256", <<users[i].password_hash[1],
                                sess'[s].form.pw>>>>
          /\ sess'[s].user.id = users[i].id

BySignup(s) ==
    /\ sess[s].at = "create_user"
    /\ Len(users') = Len(users) + 1
    /\ users'[Len(users')].email = sess[s].form.email
    /\ sess'[s].user.id = users'[Len(users')].id

ByCookie(s) ==
    /\ sess[s].at = "start"
    /\ sess[s].cookie # NoCookie
    /\ \E i \in 1..Len(users) :
          /\ users[i].remember_token_hash = HashOfToken(sess[s].cookie)
          /\ sess'[s].user.id = users[i].id

SetOnlyByCredentials ==
    \A s \in Sessions :
        BecomesSet(s) => ByPassword(s) \/ BySignup(s) \/ ByCookie(s)

\* a cookie that matches no stored hash: no user, the cookie deleted, the
\* auth screen
UnknownCookieRefused ==
    \A s \in Sessions :
        (/\ sess[s].at = "start"
         /\ sess[s].user = NoSessionUser
         /\ sess[s].cookie # NoCookie
         /\ \A i \in 1..Len(users) :
               users[i].remember_token_hash # HashOfToken(sess[s].cookie)
         /\ sess'[s] # sess[s])
            => /\ sess'[s].user = NoSessionUser
               /\ sess'[s].cookie = NoCookie
               /\ sess'[s].at = "auth"

AppOnlySignedIn ==
    \A s \in Sessions : sess[s].at = "app" => sess[s].user # NoSessionUser

AuthStepsGuarded == SetOnlyByCredentials /\ UnknownCookieRefused

\* C23: the part of main after the auth screen (the deal form, save_deal,
\* the narrative call) is reached only with a session user; the session
\* user is set only by a password the stored hash was made of, by a
\* sign-up that inserted the account, or by a cookie whose SHA-256 is a
\* stored remember_token_hash; a cookie that matches no stored hash is
\* deleted and leads to the auth screen without a user.
C23_OnlyAuthenticatedReachApp ==
    []AppOnlySignedIn /\ [][AuthStepsGuarded]_vars

\* session 2 presented a cookie that matched no stored hash and is on the
\* auth screen while the owner of the account is in the app in session 1
C23_Witness ==
    /\ last.kind = "cookie refused"
    /\ last.session = 2
    /\ sess[2].at = "auth"
    /\ sess[2].cookie = NoCookie
    /\ sess[2].user = NoSessionUser
    /\ sess[1].at = "app"
    /\ sess[1].user.id = 1

OneRowPerEmail ==
    \A i, j \in 1..Len(users) : users[i].email = users[j].email => i = j

\* create_user returned None to session s: no user, the error
FailedSignupNotSignedIn ==
    \A s \in Sessions :
        (/\ sess[s].at = "create_user"
         /\ sess'[s].at # "create_user"
         /\ users' = users)
            => /\ sess'[s].user = NoSessionUser
               /\ sess'[s].at = "auth"
               /\ last'.kind = "signup failed"

\* C24: however two sign-ups with one email are interleaved, the users
\* table holds at most one row of that email, and the sign-up whose INSERT
\* is refused ends on the auth screen with its error and without a
\* session user.
C24_OneAccountPerEmail ==
    []OneRowPerEmail /\ [][FailedSignupNotSignedIn]_vars

\* session 1 passed the existence check before session 2 inserted the
\* account, and its own INSERT was refused
C24_Witness ==
    /\ last.kind = "signup failed"
    /\ last.session = 1
    /\ Len(users) = 1
    /\ sess[1].at = "auth"
    /\ sess[1].user = NoSessionUser
    /\ sess[2].user.id = 1

====
